---- MODULE Spec2Model ----
(***************************************************************************)
(* A model of the ar archive codec: the Writer of writer.go (kept in the   *)
(* source tree as src/unnamed/part_001) and the Reader of src/reader.go    *)
(* (the second, current definition, lines 258-509), with the shared types   *)
(* of src/common.go.                                                        *)
(*                                                                          *)
(* A byte is a one-character string (NUL stands for the zero byte), a byte  *)
(* slice or Go string is a sequence of bytes.  The output stream of the     *)
(* Writer is a buffer that accepts every write in full; the input stream    *)
(* of the Reader hands out at most `chunk` bytes per read call, behind the  *)
(* bufio.Reader the Reader wraps it in.                                     *)
(***************************************************************************)
EXTENDS Integers, Sequences, FiniteSets, TLC

----------------------------------------------------------------------------
(* Bytes, strings and the strconv functions the codec uses.                *)

NUL == "NUL"
SP == " "
NL == "\n"
SLASH == "/"
\* the grave accent that starts the two-byte header terminator
GRAVE == "GRAVE"

Digits == <<"0", "1", "2", "3", "4", "5", "6", "7", "8", "9">>

nil == "nil"

Min(a, b) == IF a < b THEN a ELSE b
Max(a, b) == IF a < b THEN b ELSE a

Prefix(s, n) == SubSeq(s, 1, Min(n, Len(s)))
Drop(s, n) == SubSeq(s, n + 1, Len(s))
HasPrefix(s, p) == Len(s) >= Len(p) /\ SubSeq(s, 1, Len(p)) = p
Contains(s, c) == \E i \in 1..Len(s) : s[i] = c

\* strconv.FormatInt(x, base) for base 8 and 10
RECURSIVE FormatNat(_, _)
FormatNat(n, base) ==
    IF n < base THEN <<Digits[n + 1]>>
    ELSE FormatNat(n \div base, base) \o <<Digits[(n % base) + 1]>>

FormatInt(x, base) ==
    IF x < 0 THEN <<"-">> \o FormatNat(0 - x, base) ELSE FormatNat(x, base)

Itoa(x) == FormatInt(x, 10)

IsDigit(c, base) == \E d \in 1..base : Digits[d] = c
DigitVal(c) == (CHOOSE d \in 1..10 : Digits[d] = c) - 1

RECURSIVE NatVal(_, _)
NatVal(s, base) ==
    IF s = <<>> THEN 0
    ELSE NatVal(SubSeq(s, 1, Len(s) - 1), base) * base + DigitVal(s[Len(s)])

\* strconv.ParseInt(s, base, 64): an optional sign, then at least one digit
\* of the base and nothing else; a syntax error yields the value 0.
ParseInt(s, base) ==
    LET signed == s # <<>> /\ s[1] \in {"+", "-"}
        body == IF signed THEN Tail(s) ELSE s
        ok == body # <<>> /\ \A i \in 1..Len(body) : IsDigit(body[i], base)
    IN  [ok |-> ok,
         val |-> IF ~ok THEN 0
                 ELSE IF signed /\ s[1] = "-" THEN 0 - NatVal(body, base)
                 ELSE NatVal(body, base)]

Atoi(s) == ParseInt(s, 10)

\* strings.TrimRight(s, cutset) / bytes.TrimRight for a one-byte cutset
RECURSIVE TrimRight(_, _)
TrimRight(s, c) ==
    IF s # <<>> /\ s[Len(s)] = c THEN TrimRight(SubSeq(s, 1, Len(s) - 1), c)
    ELSE s

\* bytes.IndexByte(s, c), 1-based; 0 when c does not occur (Go: -1)
IndexByte(s, c) ==
    IF Contains(s, c) THEN CHOOSE i \in 1..Len(s) : s[i] = c /\ \A j \in 1..(i - 1) : s[j] # c
    ELSE 0

----------------------------------------------------------------------------
(* common.go                                                               *)

HEADER_BYTE_SIZE == 60
GLOBAL_HEADER == <<"!", "<", "a", "r", "c", "h", ">", "\n">>

BSD == "BSD"
GNU == "GNU"
Variant == {BSD, GNU}

\* time.Unix(0, 0), as seconds
Epoch == 0

----------------------------------------------------------------------------
(* The Writer (NewWriter .. WriteHeader).  A Writer value is a record; an   *)
(* operation takes the Writer and returns the Writer it leaves behind        *)
(* together with its results.  The field w is the content of the            *)
(* underlying io.Writer.                                                     *)

ErrWriteTooLong == "ar: write too long"
ErrClosedWrite == "ar: write to closed writer"
ErrClosedTwice == "ar: writer closed twice"
ErrEmptyName == "ar: empty file name"
ErrMissingTable == "ar: missing string table"
ErrMissingEntry == "ar: missing string table entry"
ErrTableBSD == "ar: wrote string table for BSD-variant archive"
ErrTableTwice == "ar: wrote string table twice"
ErrMemberHeader == "ar: write member header"
ErrBSDName == "ar: write BSD-variant file name"

NewWriter(variant) ==
    [w |-> <<>>, variant |-> variant, closed |-> FALSE, wroteHeader |-> FALSE,
     wroteStringTable |-> FALSE, nb |-> 0, stringTable |-> <<>>]

\* The string table of the Writer is a map from file name to offset, kept
\* here as a sequence of <<name, offset>> pairs in the order of assignment;
\* a later assignment to the same key wins.
MapHas(m, k) == \E i \in 1..Len(m) : m[i][1] = k
MapGet(m, k) ==
    LET i == CHOOSE i \in 1..Len(m) : m[i][1] = k /\ \A j \in (i + 1)..Len(m) : m[j][1] # k
    IN  m[i][2]
MapPut(m, k, v) == SelectSeq(m, LAMBDA e : e[1] # k) \o <<<<k, v>>>>

\* copy(b, s) after padding s with spaces up to len(b): the first len(b)
\* bytes of the padded text.
Padded(s, n) == [i \in 1..n |-> IF i <= Len(s) THEN s[i] ELSE SP]

numeric(n, x) == Padded(FormatInt(x, 10), n)
octal(n, x) == Padded(<<"1", "0", "0">> \o FormatInt(x, 8), n)
string(n, str) == Padded(str, n)

\* Writer.write and Writer.writeHeader call each other: the first write of
\* an open Writer is preceded by the global header.
RECURSIVE write(_, _)
writeHeader(aw) ==
    IF aw.wroteHeader THEN aw
    ELSE write([aw EXCEPT !.wroteHeader = TRUE], GLOBAL_HEADER).aw

\* Faulty variants of write: one that never emits the global header, one
\* that still accepts data when the Writer is closed.
write_NoGlobalHeader(aw, p) ==
    IF aw.closed THEN [aw |-> aw, n |-> 0, err |-> ErrClosedWrite]
    ELSE [aw |-> [aw EXCEPT !.w = @ \o p], n |-> Len(p), err |-> nil]

write_IgnoreClosed(aw, p) ==
    LET a1 == writeHeader(aw)
    IN  [aw |-> [a1 EXCEPT !.w = @ \o p], n |-> Len(p), err |-> nil]

write(aw, p) ==
    IF aw.closed THEN [aw |-> aw, n |-> 0, err |-> ErrClosedWrite]
    ELSE LET a1 == writeHeader(aw)
         IN  [aw |-> [a1 EXCEPT !.w = @ \o p], n |-> Len(p), err |-> nil]

Close(aw) ==
    IF aw.closed THEN [aw |-> aw, err |-> ErrClosedTwice]
    ELSE [aw |-> [writeHeader(aw) EXCEPT !.closed = TRUE], err |-> nil]

\* A faulty variant of Write: the pad byte is counted in the result.
Write_PadCounted(aw, b) ==
    LET long == Len(b) > aw.nb
        b1 == IF long THEN SubSeq(b, 1, aw.nb) ELSE b
        r1 == write(aw, b1)
        a1 == [r1.aw EXCEPT !.nb = @ - r1.n]
    IN  IF r1.err # nil THEN [aw |-> a1, n |-> r1.n, err |-> r1.err]
        ELSE IF Len(b1) % 2 = 1
        THEN LET r2 == write(a1, <<NL>>)
             IN  [aw |-> r2.aw, n |-> r1.n + r2.n,
                  err |-> IF r2.err # nil THEN r2.err
                          ELSE IF long THEN ErrWriteTooLong ELSE nil]
        ELSE [aw |-> a1, n |-> r1.n, err |-> IF long THEN ErrWriteTooLong ELSE nil]

Write(aw, b) ==
    LET long == Len(b) > aw.nb
        b1 == IF long THEN SubSeq(b, 1, aw.nb) ELSE b
        r1 == write(aw, b1)
        a1 == [r1.aw EXCEPT !.nb = @ - r1.n]
    IN  IF r1.err # nil THEN [aw |-> a1, n |-> r1.n, err |-> r1.err]
        ELSE IF Len(b1) % 2 = 1
        THEN LET r2 == write(a1, <<NL>>)
             IN  [aw |-> r2.aw, n |-> r1.n,
                  err |-> IF r2.err # nil THEN r2.err
                          ELSE IF long THEN ErrWriteTooLong ELSE nil]
        ELSE [aw |-> a1, n |-> r1.n, err |-> IF long THEN ErrWriteTooLong ELSE nil]

Header(name, modTime, uid, gid, mode, size) ==
    [Name |-> name, ModTime |-> modTime, Uid |-> uid, Gid |-> gid,
     Mode |-> mode, Size |-> size]

\* The 60 bytes WriteHeader assembles with its slicer.
HeaderBlock(nameField, hdr) ==
    string(16, nameField) \o numeric(12, hdr.ModTime) \o numeric(6, hdr.Uid)
    \o numeric(6, hdr.Gid) \o octal(8, hdr.Mode) \o numeric(10, hdr.Size)
    \o string(2, <<GRAVE, NL>>)

\* A faulty variant of emitHeader: the ModTime is rendered as it is given.
emitHeader_NoClamp(aw, hdr, nameField) ==
    LET r == write(aw, HeaderBlock(nameField, hdr))
    IN  IF r.err # nil THEN [aw |-> r.aw, hdr |-> hdr, err |-> ErrMemberHeader]
        ELSE IF aw.variant = BSD /\ Len(hdr.Name) > 16
        THEN LET rn == Write(r.aw, hdr.Name)
             IN  [aw |-> rn.aw, hdr |-> hdr,
                  err |-> IF rn.err # nil THEN ErrBSDName ELSE nil]
        ELSE [aw |-> r.aw, hdr |-> hdr, err |-> nil]

\* The second half of WriteHeader (lines 247-270): clamp the time, render
\* and write the block, then the BSD name.  hdr is the caller's Header as
\* the first half left it.
emitHeader(aw, hdr, nameField) ==
    LET h1 == IF hdr.ModTime < Epoch THEN [hdr EXCEPT !.ModTime = Epoch] ELSE hdr
        r == write(aw, HeaderBlock(nameField, h1))
    IN  IF r.err # nil THEN [aw |-> r.aw, hdr |-> h1, err |-> ErrMemberHeader]
        ELSE IF aw.variant = BSD /\ Len(h1.Name) > 16
        THEN LET rn == Write(r.aw, h1.Name)
             IN  [aw |-> rn.aw, hdr |-> h1,
                  err |-> IF rn.err # nil THEN ErrBSDName ELSE nil]
        ELSE [aw |-> r.aw, hdr |-> h1, err |-> nil]

\* A faulty variant of WriteHeader: the header of a member is built and
\* written whatever its name, a GNU name without a table entry taken as
\* offset 0.
WriteHeader_AnyName(aw, hdr) ==
    LET a0 == [aw EXCEPT !.nb = hdr.Size]
    IN  IF aw.variant = GNU
        THEN IF Len(hdr.Name) > 15
             THEN emitHeader(a0, hdr,
                             <<SLASH>> \o Itoa(IF MapHas(a0.stringTable, hdr.Name)
                                               THEN MapGet(a0.stringTable, hdr.Name)
                                               ELSE 0))
             ELSE emitHeader(a0, hdr, hdr.Name)
        ELSE IF Len(hdr.Name) > 16 \/ Contains(hdr.Name, SP)
        THEN LET name == IF Len(hdr.Name) % 2 = 1 THEN hdr.Name \o <<NUL>>
                         ELSE hdr.Name
                 h1 == [hdr EXCEPT !.Name = name, !.Size = @ + Len(name)]
             IN  emitHeader([a0 EXCEPT !.nb = @ + Len(name)], h1,
                            <<"#", "1", SLASH>> \o Itoa(Len(name)))
        ELSE emitHeader(a0, hdr, hdr.Name)

\* WriteHeader returns the Writer, the caller's Header as the call leaves it
\* (the call writes through the pointer) and the error.
WriteHeader(aw, hdr) ==
    LET a0 == [aw EXCEPT !.nb = hdr.Size]
    IN  IF Len(hdr.Name) = 0 THEN [aw |-> a0, hdr |-> hdr, err |-> ErrEmptyName]
        ELSE IF aw.variant = GNU
        THEN IF Len(hdr.Name) > 15
             THEN IF ~a0.wroteStringTable
                  THEN [aw |-> a0, hdr |-> hdr, err |-> ErrMissingTable]
                  ELSE IF ~MapHas(a0.stringTable, hdr.Name)
                  THEN [aw |-> a0, hdr |-> hdr, err |-> ErrMissingEntry]
                  ELSE emitHeader(a0, hdr,
                                  <<SLASH>> \o Itoa(MapGet(a0.stringTable, hdr.Name)))
             ELSE emitHeader(a0, hdr, hdr.Name)
        ELSE IF Len(hdr.Name) > 16 \/ Contains(hdr.Name, SP)
        THEN LET name == IF Len(hdr.Name) % 2 = 1 THEN hdr.Name \o <<NUL>>
                         ELSE hdr.Name
                 h1 == [hdr EXCEPT !.Name = name, !.Size = @ + Len(name)]
             IN  emitHeader([a0 EXCEPT !.nb = @ + Len(name)], h1,
                            <<"#", "1", SLASH>> \o Itoa(Len(name)))
        ELSE emitHeader(a0, hdr, hdr.Name)

\* A faulty variant of the loop: the map records the number of the entry,
\* not the offset of its first byte.
RECURSIVE tableOf_EntryNumber(_, _, _)
tableOf_EntryNumber(filenames, data, m) ==
    IF filenames = <<>> THEN [data |-> data, m |-> m]
    ELSE tableOf_EntryNumber(Tail(filenames), data \o Head(filenames) \o <<SLASH, NL>>,
                             MapPut(m, Head(filenames), Len(m)))

\* The loop of WriteStringTable (lines 175-181): the table bytes and the
\* offsets recorded in the map.
RECURSIVE tableOf(_, _, _)
tableOf(filenames, data, m) ==
    IF filenames = <<>> THEN [data |-> data, m |-> m]
    ELSE tableOf(Tail(filenames), data \o Head(filenames) \o <<SLASH, NL>>,
                 MapPut(m, Head(filenames), Len(data)))

\* A faulty variant of WriteStringTable: a GNU Writer that has written a
\* string table writes another one.
WriteStringTable_Again(aw, filenames) ==
    IF aw.variant # GNU THEN [aw |-> aw, err |-> ErrTableBSD]
    ELSE LET t == tableOf(filenames, <<>>, aw.stringTable)
             a1 == [aw EXCEPT !.wroteStringTable = TRUE, !.stringTable = t.m]
         IN  IF Len(t.data) = 0 THEN [aw |-> a1, err |-> nil]
             ELSE LET rh == WriteHeader(a1, Header(<<SLASH, SLASH>>, 0, 0, 0, 272, Len(t.data)))
                  IN  IF rh.err # nil THEN [aw |-> rh.aw, err |-> rh.err]
                      ELSE LET rw == Write(rh.aw, t.data)
                           IN  [aw |-> rw.aw, err |-> rw.err]

WriteStringTable(aw, filenames) ==
    IF aw.variant # GNU THEN [aw |-> aw, err |-> ErrTableBSD]
    ELSE IF aw.wroteStringTable THEN [aw |-> aw, err |-> ErrTableTwice]
    ELSE LET t == tableOf(filenames, <<>>, aw.stringTable)
             a1 == [aw EXCEPT !.wroteStringTable = TRUE, !.stringTable = t.m]
         IN  IF Len(t.data) = 0 THEN [aw |-> a1, err |-> nil]
             ELSE LET rh == WriteHeader(a1, Header(<<SLASH, SLASH>>, 0, 0, 0, 272, Len(t.data)))
                  IN  IF rh.err # nil THEN [aw |-> rh.aw, err |-> rh.err]
                      \* io.Copy hands the whole table to one Write call
                      ELSE LET rw == Write(rh.aw, t.data)
                           IN  [aw |-> rw.aw, err |-> rw.err]

----------------------------------------------------------------------------
(* The input stream and the bufio.Reader around it.  r is a record: data is *)
(* the whole content of the underlying io.Reader, chunk the most bytes one  *)
(* read call of that io.Reader returns, pos the number of bytes already     *)
(* handed to the Reader and buffered the number of bytes read ahead.        *)

\* the default buffer size of bufio.NewReader
BufSize == 4096

EOF == "EOF"
ErrUnexpectedEOF == "unexpected EOF"
PANIC == "panic"

NewBufio(data, chunk) == [data |-> data, chunk |-> chunk, pos |-> 0, buffered |-> 0]

remaining(r) == Len(r.data) - r.pos - r.buffered

\* bufio.Reader.Read(p) with len(p) = n: the bytes come from the buffer, after
\* at most one read of the underlying stream.
bufRead(r, n) ==
    IF n = 0 THEN [r |-> r, n |-> 0, err |-> nil]
    ELSE IF r.buffered = 0 /\ n >= BufSize
    THEN LET k == Min(n, Min(r.chunk, remaining(r)))
         IN  [r |-> [r EXCEPT !.pos = @ + k], n |-> k,
              err |-> IF k = 0 THEN EOF ELSE nil]
    ELSE LET filled == IF r.buffered = 0
                       THEN Min(BufSize, Min(r.chunk, remaining(r)))
                       ELSE r.buffered
             k == Min(n, filled)
         IN  [r |-> [r EXCEPT !.pos = @ + k, !.buffered = filled - k], n |-> k,
              err |-> IF filled = 0 THEN EOF ELSE nil]

\* The read loops of io.ReadFull and io.CopyN: read until n bytes have come
\* or the stream has ended (a read that returns no byte leaves the stream as
\* it is).  Returns the stream and the count.
RECURSIVE readLoop(_, _, _)
readLoop(r, n, done) ==
    IF done >= n \/ bufRead(r, n - done).n = 0 THEN [r |-> r, n |-> done]
    ELSE readLoop(bufRead(r, n - done).r, n, done + bufRead(r, n - done).n)

\* A faulty variant of io.ReadFull: a stream that ends before the first byte
\* is reported like one that ends later.
ReadFull_StrictEOF(r, n) ==
    LET l == readLoop(r, n, 0)
    IN  [r |-> l.r, n |-> l.n, err |-> IF l.n >= n THEN nil ELSE ErrUnexpectedEOF]

ReadFull(r, n) ==
    LET l == readLoop(r, n, 0)
    IN  [r |-> l.r, n |-> l.n,
         err |-> IF l.n >= n THEN nil ELSE IF l.n = 0 THEN EOF ELSE ErrUnexpectedEOF]

CopyN(r, n) ==
    LET l == readLoop(r, n, 0)
    IN  [r |-> l.r, n |-> l.n, err |-> IF l.n < n THEN EOF ELSE nil]

\* bufio.Reader.Peek(n): fill the buffer until it holds n bytes or the
\* stream has ended.
RECURSIVE Peek(_, _)
Peek(r, n) ==
    IF r.buffered >= n
    THEN [r |-> r, b |-> SubSeq(r.data, r.pos + 1, r.pos + n), err |-> nil]
    ELSE LET k == Min(BufSize - r.buffered, Min(r.chunk, remaining(r)))
         IN  IF k = 0
             THEN [r |-> r, b |-> SubSeq(r.data, r.pos + 1, r.pos + r.buffered),
                   err |-> EOF]
             ELSE Peek([r EXCEPT !.buffered = @ + k], n)

----------------------------------------------------------------------------
(* The Reader (src/reader.go, lines 258-509).                              *)

ErrMissingGlobalHeader == "ar: missing global header"
ErrInvalidGlobalHeader == "ar: invalid global header"
ErrTableMultiple == "ErrStringTable: archive contains multiple string tables"
ErrTableRead == "ErrStringTable: EOF"
ErrTableNewline == "ErrStringTable: missing trailing newline"
ErrNameEmpty == "ErrFileName: zero-length file name"
ErrNameNoTable == "ErrFileName: missing string table"
ErrNameOffset == "ErrFileName: invalid string table offset"
ErrNameNoSlash == "ErrFileName: file name is missing trailing '/'"
ErrNameLength == "ErrFileName: invalid long file name length"
ErrNameRead == "ErrFileName: EOF"
ErrNameSlash == "ErrFileName: file name contains illegal '/'"

ErrStringTable == {ErrTableMultiple, ErrTableRead, ErrTableNewline}
ErrFileName == {ErrNameEmpty, ErrNameNoTable, ErrNameOffset, ErrNameNoSlash,
                ErrNameLength, ErrNameRead, ErrNameSlash}

NoHeader == Header(<<>>, 0, 0, 0, 0, 0)

\* Reader.string: drop the trailing spaces of a field, but never its first
\* byte.
rdString(b) ==
    IF b = <<>> THEN <<>>
    ELSE LET k == CHOOSE k \in 1..Len(b) :
                      /\ (k = 1 \/ b[k] # SP)
                      /\ \A j \in (k + 1)..Len(b) : b[j] = SP
         IN  SubSeq(b, 1, k)

rdNumeric(b) == ParseInt(rdString(b), 10).val
rdOctal(b) == ParseInt(rdString(b), 8).val

\* make([]byte, n) filled by one Read that delivered the bytes got
Filled(got, n) == [i \in 1..n |-> IF i <= Len(got) THEN got[i] ELSE NUL]

\* A faulty variant of NewReader: the eight bytes read are not compared with
\* the global header.
NewReader_NoMagicCheck(data, chunk) ==
    LET c == CopyN(NewBufio(data, chunk), Len(GLOBAL_HEADER))
        rd0 == [r |-> c.r, variant |-> BSD, nb |-> 0, pad |-> 0, stringTable |-> <<>>]
    IN  IF c.err # nil THEN [rd |-> rd0, err |-> ErrMissingGlobalHeader]
        ELSE [rd |-> rd0, err |-> nil]

\* A faulty variant of NewReader: the archive is taken as GNU only when the
\* first name field starts with '/'.
NewReader_LeadingSlashOnly(data, chunk) ==
    LET c == CopyN(NewBufio(data, chunk), Len(GLOBAL_HEADER))
        rd0 == [r |-> c.r, variant |-> BSD, nb |-> 0, pad |-> 0, stringTable |-> <<>>]
        p == Peek(c.r, 16)
        firstFile == rdString(p.b)
        gnu == /\ p.err = nil
               /\ Len(firstFile) > 0
               /\ firstFile[1] = SLASH
    IN  IF c.err # nil THEN [rd |-> rd0, err |-> ErrMissingGlobalHeader]
        ELSE IF SubSeq(data, 1, Len(GLOBAL_HEADER)) # GLOBAL_HEADER
        THEN [rd |-> rd0, err |-> ErrInvalidGlobalHeader]
        ELSE [rd |-> [rd0 EXCEPT !.r = p.r, !.variant = IF gnu THEN GNU ELSE BSD],
              err |-> nil]

\* The string table of the Reader is nil until a "//" member has been read,
\* and a table that has been read holds at least one byte (a Read of an
\* empty data section fails): <<>> stands for nil.
NewReader(data, chunk) ==
    LET c == CopyN(NewBufio(data, chunk), Len(GLOBAL_HEADER))
        rd0 == [r |-> c.r, variant |-> BSD, nb |-> 0, pad |-> 0, stringTable |-> <<>>]
        p == Peek(c.r, 16)
        firstFile == rdString(p.b)
        gnu == /\ p.err = nil
               /\ Len(firstFile) > 0
               /\ (firstFile[1] = SLASH \/ firstFile[Len(firstFile)] = SLASH)
    IN  IF c.err # nil THEN [rd |-> rd0, err |-> ErrMissingGlobalHeader]
        ELSE IF SubSeq(data, 1, Len(GLOBAL_HEADER)) # GLOBAL_HEADER
        THEN [rd |-> rd0, err |-> ErrInvalidGlobalHeader]
        ELSE [rd |-> [rd0 EXCEPT !.r = p.r, !.variant = IF gnu THEN GNU ELSE BSD],
              err |-> nil]

skipUnread(rd) ==
    LET c == CopyN(rd.r, rd.nb + rd.pad)
    IN  [rd |-> [rd EXCEPT !.r = c.r, !.nb = 0, !.pad = 0], err |-> c.err]

\* A faulty variant of Read: b is not cut down to the bytes that remain.
Read_Unbounded(rd, n) ==
    LET br == bufRead(rd.r, n)
    IN  IF rd.nb = 0 THEN [rd |-> rd, n |-> 0, data |-> <<>>, err |-> EOF]
        ELSE [rd |-> [rd EXCEPT !.r = br.r, !.nb = @ - br.n], n |-> br.n,
              data |-> SubSeq(rd.r.data, rd.r.pos + 1, rd.r.pos + br.n),
              err |-> br.err]

\* Reader.Read(b) with len(b) = n; data is what was stored in b.
Read(rd, n) ==
    IF rd.nb = 0 THEN [rd |-> rd, n |-> 0, data |-> <<>>, err |-> EOF]
    ELSE IF n > rd.nb /\ rd.nb < 0
    THEN [rd |-> rd, n |-> 0, data |-> <<>>, err |-> PANIC]
    ELSE LET br == bufRead(rd.r, Min(n, rd.nb))
         IN  [rd |-> [rd EXCEPT !.r = br.r, !.nb = @ - br.n], n |-> br.n,
              data |-> SubSeq(rd.r.data, rd.r.pos + 1, rd.r.pos + br.n),
              err |-> br.err]

\* A faulty variant of parseGNUFileName: a name that starts with '/' is
\* looked up without asking whether a string table has been read.
parseGNUFileName_NoTableCheck(rd, header) ==
    IF Len(header.Name) = 0 THEN [hdr |-> header, err |-> ErrNameEmpty]
    ELSE LET long == header.Name[1] = SLASH
             start == Atoi(Tail(header.Name))
             tableEntry == Drop(rd.stringTable, start.val)
             end == IndexByte(tableEntry, NL)
             name == IF long THEN SubSeq(tableEntry, 1, end - 1) ELSE header.Name
         IN  IF long /\ (~start.ok \/ start.val > Len(rd.stringTable))
             THEN [hdr |-> header, err |-> ErrNameOffset]
             ELSE IF long /\ start.val < 0
             THEN [hdr |-> header, err |-> PANIC]
             ELSE IF long /\ end = 0
             THEN [hdr |-> header, err |-> ErrTableNewline]
             ELSE IF name = <<>>
             THEN [hdr |-> [header EXCEPT !.Name = name], err |-> PANIC]
             ELSE IF name[Len(name)] # SLASH
             THEN [hdr |-> [header EXCEPT !.Name = name], err |-> ErrNameNoSlash]
             ELSE [hdr |-> [header EXCEPT !.Name = TrimRight(name, SLASH)], err |-> nil]

parseGNUFileName(rd, header) ==
    IF Len(header.Name) = 0 THEN [hdr |-> header, err |-> ErrNameEmpty]
    ELSE LET long == header.Name[1] = SLASH
             start == Atoi(Tail(header.Name))
             tableEntry == Drop(rd.stringTable, start.val)
             end == IndexByte(tableEntry, NL)
             name == IF long THEN SubSeq(tableEntry, 1, end - 1) ELSE header.Name
         IN  IF long /\ rd.stringTable = <<>>
             THEN [hdr |-> header, err |-> ErrNameNoTable]
             ELSE IF long /\ (~start.ok \/ start.val > Len(rd.stringTable))
             THEN [hdr |-> header, err |-> ErrNameOffset]
             ELSE IF long /\ start.val < 0
             THEN [hdr |-> header, err |-> PANIC]
             ELSE IF long /\ end = 0
             THEN [hdr |-> header, err |-> ErrTableNewline]
             ELSE IF name = <<>>
             THEN [hdr |-> [header EXCEPT !.Name = name], err |-> PANIC]
             ELSE IF name[Len(name)] # SLASH
             THEN [hdr |-> [header EXCEPT !.Name = name], err |-> ErrNameNoSlash]
             ELSE [hdr |-> [header EXCEPT !.Name = TrimRight(name, SLASH)], err |-> nil]

parseBSDFileName(rd, header) ==
    IF ~HasPrefix(header.Name, <<"#", "1", SLASH>>)
    THEN [rd |-> rd, hdr |-> header, err |-> nil]
    ELSE LET length == Atoi(Drop(header.Name, 3))
             h1 == [header EXCEPT !.Size = @ - length.val]
             rr == Read(rd, length.val)
         IN  IF ~length.ok THEN [rd |-> rd, hdr |-> header, err |-> ErrNameLength]
             ELSE IF length.val < 0 THEN [rd |-> rd, hdr |-> h1, err |-> PANIC]
             ELSE IF rr.err = PANIC THEN [rd |-> rr.rd, hdr |-> h1, err |-> PANIC]
             ELSE IF rr.err # nil THEN [rd |-> rr.rd, hdr |-> h1, err |-> ErrNameRead]
             ELSE [rd |-> rr.rd,
                   hdr |-> [h1 EXCEPT !.Name = TrimRight(Filled(rr.data, length.val), NUL)],
                   err |-> nil]

\* The header fields decoded from a 60-byte block (lines 365-372).
decodeHeader(b) ==
    Header(rdString(SubSeq(b, 1, 16)), rdNumeric(SubSeq(b, 17, 28)),
           rdNumeric(SubSeq(b, 29, 34)), rdNumeric(SubSeq(b, 35, 40)),
           rdOctal(SubSeq(b, 41, 48)), rdNumeric(SubSeq(b, 49, 58)))

\* One pass through the body of Next.  again says that the pass ended in
\* "return rd.Next()": the member was a symbol table or the string table.
Result(rd, hdr, err, again) == [rd |-> rd, hdr |-> hdr, err |-> err, again |-> again]

\* A faulty variant of checkName: the resolved name is returned as it is.
checkName_AnyName(rd, p) ==
    IF p.err # nil THEN Result(rd, NoHeader, p.err, FALSE)
    ELSE Result(rd, p.hdr, nil, FALSE)

\* Lines 418-426: the resolved name must not contain '/'.
checkName(rd, p) ==
    IF p.err # nil THEN Result(rd, NoHeader, p.err, FALSE)
    ELSE IF Contains(p.hdr.Name, SLASH) THEN Result(rd, NoHeader, ErrNameSlash, FALSE)
    ELSE Result(rd, p.hdr, nil, FALSE)

\* Lines 395-403: rr is the outcome of the one Read into a buffer of size bytes.
tableRead(rr, size) ==
    IF rr.err # nil THEN Result(rr.rd, NoHeader, ErrTableRead, FALSE)
    ELSE Result([rr.rd EXCEPT !.stringTable = Filled(rr.data, size)], NoHeader, nil, TRUE)

\* A faulty variant of nextTable: a table is read also when one is cached.
nextTable_Replace(rd1) ==
    IF rd1.nb < 0 THEN Result(rd1, NoHeader, PANIC, FALSE)
    ELSE tableRead(Read(rd1, rd1.nb), rd1.nb)

nextTable(rd1) ==
    IF rd1.stringTable # <<>> THEN Result(rd1, NoHeader, ErrTableMultiple, FALSE)
    ELSE IF rd1.nb < 0 THEN Result(rd1, NoHeader, PANIC, FALSE)
    ELSE tableRead(Read(rd1, rd1.nb), rd1.nb)

nextGNU(rd1, header) ==
    IF header.Name = <<SLASH>> THEN Result(rd1, NoHeader, nil, TRUE)
    ELSE IF header.Name = <<SLASH, SLASH>> THEN nextTable(rd1)
    ELSE checkName(rd1, parseGNUFileName(rd1, header))

bsdName(b) == checkName(b.rd, b)

nextBSD(rd1, header) ==
    IF header.Name = <<"_", "_", ".", "S", "Y", "M", "D", "E", "F">>
    THEN Result(rd1, NoHeader, nil, TRUE)
    ELSE bsdName(parseBSDFileName(rd1, header))

\* Lines 374-381: set the counters from the size, then resolve by variant.
nextResolve(rd, header) ==
    IF rd.variant = GNU
    THEN nextGNU([rd EXCEPT !.nb = header.Size,
                            !.pad = IF header.Size > 0 /\ header.Size % 2 = 1 THEN 1 ELSE 0],
                 header)
    ELSE nextBSD([rd EXCEPT !.nb = header.Size,
                            !.pad = IF header.Size > 0 /\ header.Size % 2 = 1 THEN 1 ELSE 0],
                 header)

\* Lines 360-372: rf is the outcome of io.ReadFull for the 60-byte block,
\* which starts after the first at bytes of the stream.
nextBlock(rd, rf, at) ==
    IF rf.err # nil THEN Result([rd EXCEPT !.r = rf.r], NoHeader, rf.err, FALSE)
    ELSE nextResolve([rd EXCEPT !.r = rf.r],
                     decodeHeader(SubSeq(rd.r.data, at + 1, at + HEADER_BYTE_SIZE)))

\* Lines 355-358: sk is the outcome of skipUnread.
nextSkipped(sk) ==
    IF sk.err # nil THEN Result(sk.rd, NoHeader, sk.err, FALSE)
    ELSE nextBlock(sk.rd, ReadFull(sk.rd.r, HEADER_BYTE_SIZE), sk.rd.r.pos)

nextPass(rd) == nextSkipped(skipUnread(rd))

RECURSIVE Next(_)
nextDone(p) ==
    IF p.again THEN Next(p.rd) ELSE [rd |-> p.rd, hdr |-> p.hdr, err |-> p.err]

Next(rd) == nextDone(nextPass(rd))

----------------------------------------------------------------------------
(* The state machine.  Three kinds of run:                                  *)
(*  - SpecWriter: a caller of kind "any" makes the Writer calls in any      *)
(*    order with any arguments;                                             *)
(*  - Spec: a caller of kind "copy" follows the documented protocol         *)
(*    (WriteHeader, then one Write of exactly Size bytes as io.Copy makes   *)
(*    it, Close at the end, nothing after an error), hands the bytes        *)
(*    written to NewReader and drives the Reader as a loop over Next with   *)
(*    an io.Copy of each member does: Read into a buffer of MaxSize bytes   *)
(*    until an error, then Next, and nothing after an error of Next;        *)
(*  - SpecReader: the Reader is opened on a given archive, whole, cut       *)
(*    short or with a damaged global header, and driven.                    *)

MaxCalls == 3
MaxSize == 2
MaxMembers == 2

Sizes == 0..MaxSize
WriteLens == 0..(MaxSize + 1)
ReadLens == 0..MaxSize

LongName == <<"l", "o", "n", "g", "n", "a", "m", "e", "_", "1", "7", "_", "b", "y", "t", "e", "s">>
\* a name that fills the 16 bytes of the name field
Name16 == <<"e", "x", "a", "c", "t", "l", "y", "_", "1", "6", "_", "b", "y", "t", "e", "s">>
Names == {<<>>, <<"a">>, <<"a", " ", "b">>, Name16, LongName}

\* modification time, uid, gid and mode of the headers a caller passes
Metas == {<<1361157466, 501, 20, 420>>, <<7, 0, 3, 7>>}

\* a caller that copies members and reads them back uses either; a caller
\* that calls the Writer in any order uses the first
MetasOf(kind) == IF kind = "copy" THEN Metas ELSE {<<1361157466, 501, 20, 420>>}

HeadersOf(m) == {Header(n, m[1], m[2], m[3], m[4], s) : n \in Names, s \in Sizes}

\* Headers a caller that calls the Writer in any order passes besides: one
\* with a ModTime before the epoch, one whose Uid has more digits than the
\* six bytes of its field
EarlyHeader == Header(<<"a">>, 0 - 5, 501, 20, 420, 1)
WideHeader == Header(<<"a">>, 7, 1234567, 20, 420, 1)

HeadersFor(c) ==
    HeadersOf(c.meta) \cup (IF c.kind = "any" THEN {EarlyHeader, WideHeader} ELSE {})

Payload(k) == SubSeq(<<"p", "q", "r", "s", "t", "u", "v", "w">>, 1, k)

FileLists == {<<>>, <<LongName>>, <<<<"a">>, LongName>>}

\* the most bytes one read call of the input stream returns: one byte, or
\* all it has
Chunks == {1, BufSize}

VARIABLES
    caller,   \* the kind of caller and the time, owner and mode it uses
    aw,       \* the Writer
    calls,    \* number of Writer calls made, Close not counted
    accepted, \* number of payload bytes the Write calls reported as written
    wlog,     \* per accepted WriteHeader call: the Header passed, where its
              \* block starts in the output, the payload bytes accepted since
              \* and the number of Write calls since
    input,    \* what the Reader is opened on: the bytes, the members they
              \* were made from, and whether they are known to be a
              \* well-formed archive of exactly these members
    rd,       \* the Reader
    got,      \* per Header returned by Next: the Header and the bytes Read since
    ended,    \* Next has returned io.EOF
    last,     \* the last call: operation, error, count and Header returned
    phase     \* "writing", "given" (an archive to open), "reading", or
              \* "stopped" after a failed NewReader or a panic

vars == <<caller, aw, calls, accepted, wlog, input, rd, got, ended, last, phase>>

NoReader == NewReader(<<>>, BufSize).rd
NoInput == [data |-> <<>>, members |-> <<>>, wellFormed |-> FALSE]

\* the last call and its results; len is the length of the slice passed to
\* Write, 0 for the other calls
Call(op, err, n, hdr) == [op |-> op, err |-> err, n |-> n, hdr |-> hdr, len |-> 0]

\* the payload still owed by a "copy" caller for the member it began
owed == IF wlog = <<>> \/ wlog[Len(wlog)].writes > 0 THEN 0
        ELSE wlog[Len(wlog)].hdr.Size

\* what a caller may do next
mayCall == phase = "writing" /\ calls < MaxCalls
           /\ (caller.kind = "copy" => last.err = nil)

InitCaller(kind) ==
    /\ caller \in {[kind |-> kind, meta |-> m] : m \in MetasOf(kind)}
    /\ aw \in {NewWriter(v) : v \in Variant}
    /\ calls = 0
    /\ accepted = 0
    /\ wlog = <<>>
    /\ input = NoInput
    /\ rd = NoReader
    /\ got = <<>>
    /\ ended = FALSE
    /\ last = Call("New", nil, 0, NoHeader)
    /\ phase = "writing"

Init == InitCaller("copy")

InitWriter == InitCaller("any")

CallWriteStringTable ==
    \E filenames \in FileLists :
        LET r == WriteStringTable(aw, filenames)
        IN  /\ mayCall
            /\ caller.kind = "copy" => owed = 0
            /\ aw' = r.aw
            /\ calls' = calls + 1
            /\ last' = Call("WriteStringTable", r.err, 0, NoHeader)
            /\ UNCHANGED <<caller, accepted, wlog, input, rd, got, ended, phase>>

\* WriteHeader takes a pointer: a caller that calls the Writer in any order
\* may pass the Header of its last WriteHeader once more, as that call left
\* it
HeaderAgain ==
    IF caller.kind = "any" /\ last.op = "WriteHeader" THEN {last.hdr} ELSE {}

CallWriteHeader ==
    \E hdr \in HeadersFor(caller) \cup HeaderAgain :
        LET r == WriteHeader(aw, hdr)
            at == Len(aw.w) + (IF aw.wroteHeader THEN 0 ELSE Len(GLOBAL_HEADER))
        IN  /\ mayCall
            /\ caller.kind = "copy" => owed = 0
            /\ aw' = r.aw
            /\ calls' = calls + 1
            /\ wlog' = IF r.err = nil
                       THEN Append(wlog, [hdr |-> hdr, at |-> at, data |-> <<>>, writes |-> 0])
                       ELSE wlog
            /\ last' = Call("WriteHeader", r.err, 0, r.hdr)
            /\ UNCHANGED <<caller, accepted, input, rd, got, ended, phase>>

CallWrite ==
    \E k \in WriteLens :
        LET r == Write(aw, Payload(k))
        IN  /\ mayCall
            /\ caller.kind = "copy" => (owed > 0 /\ k = owed)
            /\ aw' = r.aw
            /\ calls' = calls + 1
            /\ accepted' = accepted + r.n
            /\ wlog' = IF wlog # <<>>
                       THEN [wlog EXCEPT ![Len(wlog)].data = @ \o SubSeq(Payload(k), 1, r.n),
                                         ![Len(wlog)].writes = @ + 1]
                       ELSE wlog
            /\ last' = [Call("Write", r.err, r.n, NoHeader) EXCEPT !.len = k]
            /\ UNCHANGED <<caller, input, rd, got, ended, phase>>

CallClose ==
    LET r == Close(aw)
    IN  /\ phase = "writing"
        /\ caller.kind = "copy" => (last.err = nil /\ owed = 0)
        /\ caller.kind = "any" => calls < MaxCalls
        /\ aw' = r.aw
        /\ last' = Call("Close", r.err, 0, NoHeader)
        /\ UNCHANGED <<caller, calls, accepted, wlog, input, rd, got, ended, phase>>

\* the members a "copy" caller wrote, as the Reader should return them
written == [i \in 1..Len(wlog) |-> [hdr |-> wlog[i].hdr, data |-> wlog[i].data]]

NewReaderOn(data, chunk) ==
    LET r == NewReader(data, chunk)
    IN  /\ rd' = r.rd
        /\ phase' = IF r.err = nil THEN "reading" ELSE "stopped"
        /\ last' = Call("NewReader", r.err, 0, NoHeader)

\* NewReader on the output of the Writer
CallNewReader ==
    \E chunk \in Chunks :
        /\ phase = "writing" /\ caller.kind = "copy"
        /\ aw.closed /\ last.err = nil
        /\ NewReaderOn(aw.w, chunk)
        /\ input' = [data |-> aw.w, members |-> written, wellFormed |-> FALSE]
        /\ UNCHANGED <<caller, aw, calls, accepted, wlog, got, ended>>

\* NewReader on a given archive
CallOpen ==
    \E chunk \in Chunks :
        /\ phase = "given"
        /\ NewReaderOn(input.data, chunk)
        /\ UNCHANGED <<caller, aw, calls, accepted, wlog, input, got, ended>>

CallNext ==
    LET r == Next(rd)
    IN  /\ phase = "reading"
        /\ caller.kind = "copy" => (last.op = "NewReader" \/ (last.op = "Read" /\ last.err # nil))
        /\ rd' = r.rd
        /\ got' = IF r.err = nil THEN Append(got, [hdr |-> r.hdr, data |-> <<>>]) ELSE got
        /\ ended' = (ended \/ r.err = EOF)
        /\ phase' = IF r.err = PANIC THEN "stopped" ELSE phase
        /\ last' = Call("Next", r.err, 0, r.hdr)
        /\ UNCHANGED <<caller, aw, calls, accepted, wlog, input>>

CallRead ==
    \E n \in ReadLens :
        LET r == Read(rd, n)
        IN  /\ phase = "reading"
            /\ caller.kind = "copy" => (n = MaxSize /\ last.op \in {"Next", "Read"} /\ last.err = nil)
            /\ rd' = r.rd
            /\ got' = IF got # <<>> THEN [got EXCEPT ![Len(got)].data = @ \o r.data] ELSE got
            /\ phase' = IF r.err = PANIC THEN "stopped" ELSE phase
            /\ last' = Call("Read", r.err, r.n, NoHeader)
            /\ UNCHANGED <<caller, aw, calls, accepted, wlog, input, ended>>

WriterStep ==
    \/ CallWriteStringTable
    \/ CallWriteHeader
    \/ CallWrite
    \/ CallClose

ReaderStep ==
    \/ CallOpen
    \/ CallNext
    \/ CallRead

NextStep ==
    \/ CallWriteStringTable
    \/ CallWriteHeader
    \/ CallWrite
    \/ CallClose
    \/ CallNewReader
    \/ CallNext
    \/ CallRead

Spec == Init /\ [][NextStep]_vars

SpecWriter == InitWriter /\ [][WriterStep]_vars

----------------------------------------------------------------------------
(* The archives SpecReader opens.  A whole archive holds up to MaxMembers    *)
(* members with short names kept in the header, or the first of them has    *)
(* LongName, which a BSD archive prepends to the data section and a GNU     *)
(* archive keeps in its string table.                                       *)

\* the short name of the i-th member of a given archive: "a", "bb", "ccc"
MemberName(i) == [j \in 1..i |-> <<"a", "b", "c", "d">>[i]]

\* what the Reader should return for a member with this name and size
Member(name, size) ==
    [hdr |-> Header(name, 1361157466, 501, 20, 33188, size), data |-> Payload(size)]

\* a data section with its padding
Section(data) == data \o (IF Len(data) % 2 = 1 THEN <<NL>> ELSE <<>>)

\* the bytes of a member on disk: the block and the data section; m is the
\* string table map of a GNU archive
MemberBytes(variant, m, mem) ==
    LET h == [mem.hdr EXCEPT !.Mode = 420]
        name == IF Len(h.Name) % 2 = 1 THEN h.Name \o <<NUL>> ELSE h.Name
    IN  IF Len(h.Name) <= 15
        THEN HeaderBlock(IF variant = GNU THEN h.Name \o <<SLASH>> ELSE h.Name, h)
             \o Section(mem.data)
        ELSE IF variant = GNU
        THEN HeaderBlock(<<SLASH>> \o Itoa(MapGet(m, h.Name)), h) \o Section(mem.data)
        ELSE HeaderBlock(<<"#", "1", SLASH>> \o Itoa(Len(name)),
                         [h EXCEPT !.Size = @ + Len(name)])
             \o Section(name \o mem.data)

\* the "//" member of a GNU archive that lists these file names
TableBytes(files) ==
    LET t == tableOf(files, <<>>, <<>>)
    IN  IF files = <<>> THEN <<>>
        ELSE HeaderBlock(<<SLASH, SLASH>>, Header(<<>>, 0, 0, 0, 272, Len(t.data)))
             \o Section(t.data)

RECURSIVE MembersBytes(_, _, _)
MembersBytes(variant, m, members) ==
    IF members = <<>> THEN <<>>
    ELSE MemberBytes(variant, m, Head(members)) \o MembersBytes(variant, m, Tail(members))

ArchiveBytes(variant, files, members) ==
    GLOBAL_HEADER \o TableBytes(files)
    \o MembersBytes(variant, tableOf(files, <<>>, <<>>).m, members)

\* the sequences of at most n members, of every size up to MaxSize
RECURSIVE MemberLists(_)
MemberLists(n) ==
    IF n = 0 THEN {<<>>}
    ELSE MemberLists(n - 1)
         \cup {Append(l, Member(name, s)) :
                   l \in {x \in MemberLists(n - 1) : Len(x) = n - 1},
                   name \in IF n = 1 THEN {MemberName(n), LongName} ELSE {MemberName(n)},
                   s \in Sizes}

Archive(variant, files, members) ==
    [data |-> ArchiveBytes(variant, files, members), members |-> members,
     wellFormed |-> TRUE]

\* a GNU archive has a string table if it holds a long name
WholeArchives ==
    {Archive(BSD, <<>>, l) : l \in MemberLists(MaxMembers)}
    \cup {Archive(GNU, <<>>, l) :
              l \in {x \in MemberLists(MaxMembers) :
                         \A i \in 1..Len(x) : x[i].hdr.Name # LongName}}
    \cup {Archive(GNU, files, l) :
              files \in {<<LongName>>, <<<<"a">>, LongName>>},
              l \in {x \in MemberLists(MaxMembers) :
                         x # <<>> /\ x[1].hdr.Name = LongName}}

\* an archive cut short after n bytes, or with the first byte damaged
Damaged ==
    {[data |-> Prefix(a.data, n), members |-> <<>>, wellFormed |-> FALSE] :
         a \in {w \in WholeArchives : Len(w.members) = 1 /\ w.members[1].hdr.Size > 0},
         n \in {0, 5, 8, 16, 40, 69}}
    \cup {[data |-> [a.data EXCEPT ![1] = "?"], members |-> <<>>, wellFormed |-> FALSE] :
              a \in {w \in WholeArchives : Len(w.members) = 0}}

\* a member with this name field and this data section
Raw(nameField, data) ==
    HeaderBlock(nameField, Header(<<>>, 1361157466, 501, 20, 420, Len(data)))
    \o Section(data)

Given(data, members, wellFormed) ==
    [data |-> data, members |-> members, wellFormed |-> wellFormed]

\* the string table that holds LongName at offset 0
LongTable == tableOf(<<LongName>>, <<>>, <<>>).data

\* GNU archives with a reference into a string table that is not there: as
\* the first member, after a member with a short name, and after a symbol
\* table
NoTableArchives ==
    {Given(GLOBAL_HEADER \o Raw(<<SLASH, "0">>, Payload(1)), <<>>, FALSE),
     Given(GLOBAL_HEADER \o Raw(<<"a", SLASH>>, Payload(1))
           \o Raw(<<SLASH, "0">>, Payload(2)), <<>>, FALSE),
     Given(GLOBAL_HEADER \o Raw(<<SLASH>>, Payload(3))
           \o Raw(<<SLASH, "0">>, Payload(1)), <<>>, FALSE)}

\* GNU archives of a symbol table, a string table and one file, with a short
\* and with a long name; a BSD archive of a symbol table and one file
SymbolTableArchives ==
    {Given(GLOBAL_HEADER \o Raw(<<SLASH>>, Payload(3)) \o Raw(<<SLASH, SLASH>>, LongTable)
           \o Raw(<<"a", SLASH>>, Payload(1)),
           <<Member(<<"a">>, 1)>>, TRUE),
     Given(GLOBAL_HEADER \o Raw(<<SLASH>>, Payload(3)) \o Raw(<<SLASH, SLASH>>, LongTable)
           \o Raw(<<SLASH, "0">>, Payload(1)),
           <<Member(LongName, 1)>>, TRUE),
     Given(GLOBAL_HEADER \o Raw(<<"_", "_", ".", "S", "Y", "M", "D", "E", "F">>, Payload(3))
           \o Raw(<<"a">>, Payload(1)),
           <<Member(<<"a">>, 1)>>, TRUE)}

\* GNU archives with two string tables: one after the other, and with a
\* member between them
TwoTableArchives ==
    {Given(GLOBAL_HEADER \o Raw(<<SLASH, SLASH>>, LongTable)
           \o Raw(<<SLASH, SLASH>>, <<"x", SLASH, NL>>)
           \o Raw(<<SLASH, "0">>, Payload(1)), <<>>, FALSE),
     Given(GLOBAL_HEADER \o Raw(<<SLASH, SLASH>>, LongTable)
           \o Raw(<<SLASH, "0">>, Payload(1))
           \o Raw(<<SLASH, SLASH>>, <<"x", SLASH, NL>>)
           \o Raw(<<"a", SLASH>>, Payload(0)), <<>>, FALSE)}

\* archives with a '/' inside a name: in the name field (GNU and BSD), in
\* the string table, in the name a BSD archive prepends to the data
SlashArchives ==
    {Given(GLOBAL_HEADER \o Raw(<<"a", SLASH, "b", SLASH>>, Payload(1)), <<>>, FALSE),
     Given(GLOBAL_HEADER \o Raw(<<"a", SLASH, "b">>, Payload(1)), <<>>, FALSE),
     Given(GLOBAL_HEADER \o Raw(<<SLASH, SLASH>>, <<"d", SLASH, "e", SLASH, NL>>)
           \o Raw(<<SLASH, "0">>, Payload(1)), <<>>, FALSE),
     Given(GLOBAL_HEADER \o Raw(<<"#", "1", SLASH, "4">>, <<"x", SLASH, "y", "z", "p">>),
           <<>>, FALSE)}

\* GNU archives whose names end with two '/' (in the name field, in the
\* string table) or, after a first member that ends with one, with none
TrailingSlashArchives ==
    {Given(GLOBAL_HEADER \o Raw(<<"a", SLASH, SLASH>>, Payload(1)), <<>>, FALSE),
     Given(GLOBAL_HEADER \o Raw(<<SLASH, SLASH>>, <<"d", SLASH, SLASH, NL>>)
           \o Raw(<<SLASH, "0">>, Payload(1)), <<>>, FALSE),
     Given(GLOBAL_HEADER \o Raw(<<"a", SLASH>>, Payload(1))
           \o Raw(<<"b", "b">>, Payload(2)), <<>>, FALSE)}

\* GNU archives of a string table of 19 bytes and a member that refers to
\* it with an offset inside an entry, below 0, equal to the length of the
\* table and beyond it
OffsetArchives ==
    {Given(GLOBAL_HEADER \o Raw(<<SLASH, SLASH>>, LongTable)
           \o Raw(<<SLASH>> \o text, Payload(1)), <<>>, FALSE) :
         text \in {<<"5">>, <<"-", "1">>, <<"1", "9">>, <<"2", "0">>}}

\* BSD archives of one member "#1/4" whose data section holds less than,
\* exactly and more than the 4 bytes of the name
PrependedNameArchives ==
    {Given(GLOBAL_HEADER \o Raw(<<"#", "1", SLASH, "4">>, data), <<>>, FALSE) :
         data \in {<<"x", "y">>, <<"x", "y", "z", NUL>>, <<"x", "y", "z", NUL, "p", "q">>}}

Archives ==
    WholeArchives \cup Damaged \cup NoTableArchives \cup SymbolTableArchives
    \cup TwoTableArchives \cup SlashArchives \cup TrailingSlashArchives
    \cup OffsetArchives \cup PrependedNameArchives

InitReader ==
    /\ caller = [kind |-> "none", meta |-> <<0, 0, 0, 0>>]
    /\ aw = NewWriter(BSD)
    /\ calls = 0
    /\ accepted = 0
    /\ wlog = <<>>
    /\ input \in Archives
    /\ rd = NoReader
    /\ got = <<>>
    /\ ended = FALSE
    /\ last = Call("New", nil, 0, NoHeader)
    /\ phase = "given"

SpecReader == InitReader /\ [][ReaderStep]_vars

----------------------------------------------------------------------------
(* Properties of the Writer, checked under SpecWriter.                      *)

\* C1: the global header "!<arch>\n" is the first thing the Writer emits
\* and is emitted exactly once: output that is not empty starts with it and
\* holds it once, a closed Writer has emitted it, and a Writer that is
\* closed without a member, a string table or a payload byte written has
\* emitted these 8 bytes and nothing else.
C1_GlobalHeaderOnce ==
    LET count == Cardinality({i \in 1..(Len(aw.w) - 7) :
                                  SubSeq(aw.w, i, i + 7) = GLOBAL_HEADER})
    IN  /\ aw.w # <<>> => Prefix(aw.w, 8) = GLOBAL_HEADER
        /\ count = IF aw.w = <<>> THEN 0 ELSE 1
        /\ aw.closed => count = 1
        /\ (aw.closed /\ wlog = <<>> /\ aw.stringTable = <<>> /\ accepted = 0)
               => aw.w = GLOBAL_HEADER

\* a Writer closed after a member with payload was written
C1_Witness ==
    /\ aw.closed /\ last.op = "Close" /\ last.err = nil
    /\ wlog # <<>> /\ accepted > 0

\* C2: once Close has succeeded the Writer stays closed, no call appends a
\* byte to the output, and every Write, WriteHeader and Close returns an
\* error.
C2_ClosedWriterRejects ==
    [][aw.closed =>
           /\ aw'.closed
           /\ aw'.w = aw.w
           /\ last'.op \in {"Write", "WriteHeader", "Close"} => last'.err # nil]_vars

\* a Write that was refused because the Writer is closed
C2_Witness ==
    /\ aw.closed /\ last.op = "Write" /\ last.err = ErrClosedWrite
    /\ Len(aw.w) > Len(GLOBAL_HEADER)

\* C3: the Write call that follows a successful WriteHeader declaring Size
\* S accepts at most S payload bytes.
C3_WriteWithinSize ==
    [][(last.op = "WriteHeader" /\ last.err = nil /\ last'.op = "Write")
           => last'.n <= wlog[Len(wlog)].hdr.Size]_vars

\* the name field of the member is the name itself, not a reference
plainField(hdr) ==
    IF aw.variant = GNU THEN Len(hdr.Name) <= 15
    ELSE Len(hdr.Name) <= 16 /\ ~Contains(hdr.Name, SP)

\* C4: once the Write calls for a member declared with Size S have supplied
\* exactly S bytes, the member occupies 60 + S + (S mod 2) bytes of the
\* output.
C4_MemberExtent ==
    (/\ last.op = "Write" /\ last.err = nil /\ wlog # <<>>
     /\ plainField(wlog[Len(wlog)].hdr)
     /\ Len(wlog[Len(wlog)].data) = wlog[Len(wlog)].hdr.Size)
        => Len(aw.w) - wlog[Len(wlog)].at
               = HEADER_BYTE_SIZE + wlog[Len(wlog)].hdr.Size
                 + (wlog[Len(wlog)].hdr.Size % 2)

----------------------------------------------------------------------------
(* Properties of the Reader, checked under SpecReader.                      *)

\* C5: NewReader fails with ErrMissingGlobalHeader on a stream shorter than
\* 8 bytes, with ErrInvalidGlobalHeader on a stream whose first 8 bytes are
\* not the global header, and otherwise succeeds with the Reader right
\* after the global header: 8 bytes consumed, no member begun.
C5_NewReaderChecksMagic ==
    last.op = "NewReader" =>
        IF Len(input.data) < Len(GLOBAL_HEADER)
        THEN last.err = ErrMissingGlobalHeader /\ phase = "stopped"
        ELSE IF Prefix(input.data, Len(GLOBAL_HEADER)) # GLOBAL_HEADER
        THEN last.err = ErrInvalidGlobalHeader /\ phase = "stopped"
        ELSE /\ last.err = nil /\ phase = "reading"
             /\ rd.r.pos = Len(GLOBAL_HEADER)
             /\ rd.nb = 0 /\ rd.pad = 0 /\ got = <<>>

\* NewReader has succeeded on an archive that holds a member
C5_Witness ==
    /\ last.op = "NewReader" /\ last.err = nil
    /\ Len(input.data) >= Len(GLOBAL_HEADER) + HEADER_BYTE_SIZE
    /\ rd.r.pos = Len(GLOBAL_HEADER)

\* C6: on a well-formed archive, whatever part of each payload the caller
\* reads between two calls of Next, Next returns the headers of the members
\* in archive order and fails only with io.EOF after the last, and the bytes
\* Read delivers for a member are the leading bytes of its payload.
C6_NextSkipsUnread ==
    (phase = "reading" /\ input.wellFormed) =>
        /\ Len(got) <= Len(input.members)
        /\ \A i \in 1..Len(got) :
               /\ got[i].hdr = input.members[i].hdr
               /\ got[i].data = Prefix(input.members[i].data, Len(got[i].data))
        /\ (last.op = "Next" /\ last.err # nil)
               => (last.err = EOF /\ Len(got) = Len(input.members))

\* C7: a Read delivers no more bytes than remain of the current payload,
\* lowers the remaining count by the number delivered and hands exactly
\* that many bytes to the caller; with nothing remaining it delivers 0
\* bytes and io.EOF.
C7_ReadWithinPayload ==
    [][(phase = "reading" /\ last'.op = "Read") =>
           /\ last'.n <= Max(rd.nb, 0)
           /\ rd'.nb = rd.nb - last'.n
           /\ got # <<>> => Len(got'[Len(got)].data) = Len(got[Len(got)].data) + last'.n
           /\ rd.nb = 0 => (last'.n = 0 /\ last'.err = EOF)]_vars

\* a Read at the end of a payload that other members follow
C7_Witness ==
    /\ phase = "reading" /\ last.op = "Read" /\ last.n = 0 /\ last.err = EOF
    /\ got # <<>> /\ Len(got[Len(got)].data) > 0
    /\ rd.r.pos < Len(rd.r.data)

\* C8: on a well-formed archive a Next called when the stream ends after
\* what is left of the current member returns no Header and io.EOF; and once Next has returned io.EOF, every
\* further Next returns no Header and io.EOF and every Read delivers 0 bytes.
C8_EndOfArchive ==
    [][/\ (phase = "reading" /\ input.wellFormed
           /\ rd.r.pos + rd.nb + rd.pad = Len(input.data) /\ last'.op = "Next")
              => (last'.err = EOF /\ last'.hdr = NoHeader)
       /\ ended => /\ ended'
                   /\ last'.op = "Next" => (last'.err = EOF /\ last'.hdr = NoHeader)
                   /\ last'.op = "Read" => last'.n = 0]_vars

\* a Read after Next returned io.EOF at the end of a two-member archive
C8_Witness ==
    /\ ended /\ input.wellFormed /\ Len(got) = 2
    /\ last.op = "Read" /\ last.n = 0

----------------------------------------------------------------------------
(* Round trips, checked under Spec.                                         *)

\* the Header read back equals the Header written, the mode in its
\* permission bits
sameHeader(r, w) ==
    /\ r.Name = w.Name /\ r.ModTime = w.ModTime /\ r.Uid = w.Uid
    /\ r.Gid = w.Gid /\ r.Size = w.Size
    /\ r.Mode % 512 = w.Mode % 512

\* Next and Read have returned the members written, as far as they got, and
\* Next has not failed before the last one
readBack ==
    /\ Len(got) <= Len(input.members)
    /\ \A i \in 1..Len(got) :
           /\ sameHeader(got[i].hdr, input.members[i].hdr)
           /\ got[i].data = Prefix(input.members[i].data, Len(got[i].data))
           /\ i < Len(got) => got[i].data = input.members[i].data
    /\ (last.op = "Read" /\ last.err # nil)
           => (last.err = EOF /\ got[Len(got)].data = input.members[Len(got)].data)
    /\ (last.op = "Next" /\ last.err # nil)
           => (last.err = EOF /\ Len(got) = Len(input.members))

\* C9: an archive of members whose names have at most 15 bytes and no '/',
\* written by a Writer of either variant, is read back with equal Headers
\* and identical payloads.
C9_ShortNameRoundTrip ==
    (/\ phase = "reading" /\ aw.stringTable = <<>>
     /\ \A i \in 1..Len(input.members) :
            /\ Len(input.members[i].hdr.Name) \in 1..15
            /\ ~Contains(input.members[i].hdr.Name, SLASH))
        => readBack

\* C10: an archive of members with names longer than 15 bytes, written by a
\* GNU Writer after WriteStringTable registered the names, is read back
\* with these names, the original sizes and the payloads.
C10_LongNameRoundTrip ==
    (/\ phase = "reading" /\ aw.variant = GNU
     /\ \A i \in 1..Len(input.members) :
            /\ Len(input.members[i].hdr.Name) > 15
            /\ ~Contains(input.members[i].hdr.Name, SLASH)
            /\ MapHas(aw.stringTable, input.members[i].hdr.Name))
        => readBack

\* the n bytes at offset from of the member header that starts at offset at
\* of the archive
blockField(at, from, n) == SubSeq(input.data, at + from + 1, at + from + n)

\* the name a BSD Writer prepends to the data: padded with a zero byte to
\* an even length
evenName(name) == IF Len(name) % 2 = 1 THEN name \o <<NUL>> ELSE name

\* C11: an archive of members with names longer than 16 bytes written by a
\* BSD Writer holds, per member, the name field "#1/L" with L the length of
\* the name padded to even, the size field S + L and the padded name after
\* the header, and is read back with the original names, the sizes S and the
\* payloads.
C11_BSDLongNameRoundTrip ==
    (/\ phase = "reading" /\ aw.variant = BSD
     /\ \A i \in 1..Len(wlog) : Len(wlog[i].hdr.Name) > 16)
        => /\ \A i \in 1..Len(wlog) :
                  LET name == evenName(wlog[i].hdr.Name)
                      at == wlog[i].at
                  IN  /\ blockField(at, 0, 16)
                             = Padded(<<"#", "1", SLASH>> \o Itoa(Len(name)), 16)
                      /\ blockField(at, 48, 10)
                             = Padded(Itoa(wlog[i].hdr.Size + Len(name)), 10)
                      /\ blockField(at, HEADER_BYTE_SIZE, Len(name)) = name
           /\ readBack

\* the offset in the stream at which the next call of Next reads a header
nextAt == rd.r.pos + rd.nb + rd.pad

\* the 16-byte name field of the header at offset p, trailing spaces dropped
nameFieldAt(p) == TrimRight(SubSeq(input.data, p + 1, p + 16), SP)

\* a whole header lies at offset p and its name field is '/' and an offset
offsetNameAt(p) ==
    /\ p + HEADER_BYTE_SIZE <= Len(input.data)
    /\ Len(nameFieldAt(p)) >= 2
    /\ nameFieldAt(p)[1] = SLASH
    /\ \A i \in 2..Len(nameFieldAt(p)) : IsDigit(nameFieldAt(p)[i], 10)

\* a whole header of a GNU symbol table lies at offset p
symbolTableAt(p) ==
    /\ p + HEADER_BYTE_SIZE <= Len(input.data)
    /\ nameFieldAt(p) = <<SLASH>>

\* the offset after the member at offset p and its padding
memberEnd(p) ==
    LET size == NatVal(TrimRight(SubSeq(input.data, p + 49, p + 58), SP), 10)
    IN  p + HEADER_BYTE_SIZE + size + (size % 2)

\* the call of Next made in this step meets, with no string table cached, a
\* member of a GNU archive whose name field is '/' and an offset: as the
\* next member or after a symbol table
meetsOffsetNameWithoutTable ==
    /\ phase = "reading" /\ last'.op = "Next"
    /\ rd.variant = GNU /\ rd.stringTable = <<>>
    /\ \/ offsetNameAt(nextAt)
       \/ symbolTableAt(nextAt) /\ offsetNameAt(memberEnd(nextAt))

C13_SpecialMembersInvisible ==
    phase \in {"reading", "stopped"} =>
        /\ \A i \in 1..Len(got) :
               /\ got[i].hdr.Name \notin {<<SLASH>>, <<SLASH, SLASH>>}
               /\ rd.variant = BSD
                      => got[i].hdr.Name # <<"_", "_", ".", "S", "Y", "M", "D", "E", "F">>
        /\ input \in SymbolTableArchives =>
               /\ Len(got) <= 1
               /\ \A i \in 1..Len(got) : got[i].hdr = input.members[i].hdr
               /\ (last.op = "Next" /\ last.err # nil)
                      => (last.err = EOF /\ Len(got) = 1)

\* C14: every Header that Next returns without an error has a Name without
\* '/', whether the name came from the header field, from the GNU string
\* table or from the name a BSD archive prepends to the data.
C14_NoSlashInName ==
    /\ \A i \in 1..Len(got) : ~Contains(got[i].hdr.Name, SLASH)
    /\ (last.op = "Next" /\ last.err = nil) => ~Contains(last.hdr.Name, SLASH)
    /\ (last.op = "Next" /\ last.err # nil) => last.hdr = NoHeader

\* C14 witness: Next has returned the only Header of a GNU archive, with a
\* name resolved from the string table.
C14_Witness ==
    /\ last.op = "Next" /\ last.err = nil
    /\ rd.variant = GNU /\ rd.stringTable # <<>>
    /\ last.hdr.Name = LongName
    /\ Len(got) = 1

\* a whole header of a GNU string table lies at offset p
stringTableAt(p) ==
    /\ p + HEADER_BYTE_SIZE <= Len(input.data)
    /\ nameFieldAt(p) = <<SLASH, SLASH>>

\* the call of Next made in this step meets a "//" member of a GNU archive
\* while a string table is cached: as the next member or after a symbol
\* table
meetsSecondStringTable ==
    /\ phase = "reading" /\ last'.op = "Next"
    /\ rd.variant = GNU /\ rd.stringTable # <<>>
    /\ \/ stringTableAt(nextAt)
       \/ symbolTableAt(nextAt) /\ stringTableAt(memberEnd(nextAt))

\* C15: the Reader caches at most one string table: a "//" member met when
\* a table is cached makes Next fail with the string-table error "archive
\* contains multiple string tables" (ErrStringTable), wherever in the
\* archive it lies, and a cached table is never replaced or changed.
C15_OneStringTable ==
    [][/\ rd.stringTable # <<>> => rd'.stringTable = rd.stringTable
       /\ meetsSecondStringTable
              => /\ last'.err = ErrTableMultiple
                 /\ last'.err \in ErrStringTable]_vars

\* C15 witness: Next has failed with "archive contains multiple string
\* tables" right after the header of a "//" member, the first table cached
\* in full.
C15_Witness ==
    /\ phase = "reading" /\ last.op = "Next" /\ last.err = ErrTableMultiple
    /\ rd.variant = GNU /\ rd.stringTable = LongTable
    /\ rd.r.pos >= HEADER_BYTE_SIZE
    /\ stringTableAt(rd.r.pos - HEADER_BYTE_SIZE)

\* the offsets of the output at which a member header named "//" stands
stringTablesIn(w) ==
    {p \in 0..(Len(w) - HEADER_BYTE_SIZE) :
         /\ SubSeq(w, p + 1, p + 16) = Padded(<<SLASH, SLASH>>, 16)
         /\ SubSeq(w, p + 59, p + 60) = <<GRAVE, NL>>}

\* this step is a call of WriteStringTable
callsWriteStringTable == last'.op = "WriteStringTable" /\ calls' = calls + 1

\* C16: WriteStringTable returns an error on a BSD Writer and on every call
\* after the first on a GNU Writer, and writes nothing in both cases; the
\* output never holds more than one "//" member.  (The first call on a GNU
\* Writer sets wroteStringTable, nothing clears it, and a call that finds it
\* set is refused.)
C16_StringTableOnce ==
    [][/\ aw.wroteStringTable => aw'.wroteStringTable
       /\ callsWriteStringTable
              => /\ aw.variant = BSD
                        => (last'.err = ErrTableBSD /\ aw' = aw)
                 /\ aw.variant = GNU => aw'.wroteStringTable
                 /\ (aw.variant = GNU /\ aw.wroteStringTable)
                        => (last'.err = ErrTableTwice /\ aw' = aw)
                 /\ Cardinality(stringTablesIn(aw'.w)) <= 1]_vars

\* C16 witness: a GNU Writer whose output holds a "//" member has refused
\* a further call of WriteStringTable.
C16_Witness ==
    /\ last.op = "WriteStringTable" /\ last.err = ErrTableTwice
    /\ aw.variant = GNU /\ ~aw.closed
    /\ Cardinality(stringTablesIn(aw.w)) = 1

\* this step is a call of WriteHeader; last'.hdr is the Header as the call
\* has left it, which is the Header passed unless a BSD Writer has padded
\* its name
callsWriteHeader == last'.op = "WriteHeader" /\ calls' = calls + 1

\* the call has written nothing, the global header included
nothingEmitted == aw'.w = aw.w /\ aw'.wroteHeader = aw.wroteHeader

\* C17: WriteHeader with an empty name (either variant), or on a GNU Writer
\* with a name longer than 15 bytes when no string table has been written
\* or the name is not registered in it, returns an error and emits no
\* byte.
C17_RefusedHeaderEmitsNothing ==
    [][callsWriteHeader
           => /\ last'.hdr.Name = <<>>
                     => (last'.err = ErrEmptyName /\ nothingEmitted)
              /\ (aw.variant = GNU /\ Len(last'.hdr.Name) > 15 /\ ~aw.wroteStringTable)
                     => (last'.err = ErrMissingTable /\ nothingEmitted)
              /\ (/\ aw.variant = GNU /\ Len(last'.hdr.Name) > 15
                  /\ aw.wroteStringTable
                  /\ ~MapHas(aw.stringTable, last'.hdr.Name))
                     => (last'.err = ErrMissingEntry /\ nothingEmitted)]_vars

\* C17 witness: an open GNU Writer that has written a string table and a
\* member has refused a name of 16 bytes that the table does not hold.
C17_Witness ==
    /\ last.op = "WriteHeader" /\ last.err = ErrMissingEntry
    /\ last.hdr.Name = Name16
    /\ aw.variant = GNU /\ ~aw.closed /\ aw.wroteStringTable
    /\ Cardinality(stringTablesIn(aw.w)) = 1
    /\ wlog # <<>>

\* C18: a member written with a Mode m in 0..0o777 is read back with the
\* Mode 0o100000 + m (32768 + m).  Stated for archives of members whose
\* names go into the name field as they are (at most 15 bytes, no space),
\* so that every Header read is that of the member written at its place.
C18_ModeRoundTrip ==
    (/\ phase = "reading"
     /\ \A i \in 1..Len(wlog) :
            /\ wlog[i].hdr.Mode \in 0..511
            /\ Len(wlog[i].hdr.Name) <= 15
            /\ ~Contains(wlog[i].hdr.Name, SP))
        => \A i \in 1..Len(got) :
               /\ i <= Len(wlog)
               /\ got[i].hdr.Name = wlog[i].hdr.Name
               /\ got[i].hdr.Mode = 32768 + wlog[i].hdr.Mode

\* NewReader has returned a Reader
hasReader == phase = "reading" \/ (phase = "stopped" /\ last.op # "NewReader")

\* the variant that the first name field of the archive stands for: GNU
\* when the archive holds the 16 bytes of a first name field and the field,
\* its trailing spaces dropped, starts or ends with '/'
firstNameVariant ==
    LET field == TrimRight(SubSeq(input.data, Len(GLOBAL_HEADER) + 1,
                                  Len(GLOBAL_HEADER) + 16), SP)
    IN  IF /\ Len(input.data) >= Len(GLOBAL_HEADER) + 16
           /\ field # <<>>
           /\ (field[1] = SLASH \/ field[Len(field)] = SLASH)
        THEN GNU ELSE BSD

\* C19: from NewReader on and after every call of Next and Read the variant
\* of the Reader is the one the first name field of the archive stands for:
\* GNU exactly when that field, trailing spaces dropped, starts or ends with
\* '/', BSD otherwise, also for an archive without members.
C19_VariantFixedByFirstName == hasReader => rd.variant = firstNameVariant

\* C19 witness: the Reader of an archive whose first name field ends with
\* '/' without starting with it is GNU after two members have been
\* returned.
C19_Witness ==
    /\ phase = "reading" /\ rd.variant = GNU
    /\ last.op = "Next" /\ last.err = nil
    /\ Len(got) = 2
    /\ nameFieldAt(Len(GLOBAL_HEADER))[1] # SLASH

\* this step is a call of WriteHeader on a BSD Writer that has succeeded for
\* a name of more than 16 bytes or with a space in it; the Header passed
\* is the last entry of wlog'
rendersBSDLongName ==
    /\ callsWriteHeader /\ aw.variant = BSD /\ last'.err = nil
    /\ LET name == wlog'[Len(wlog')].hdr.Name
       IN  Len(name) > 16 \/ Contains(name, SP)

\* C20: when WriteHeader of a BSD Writer renders the name field as "#1/L"
\* (a name of more than 16 bytes, or a name with a space), the output ends,
\* on return, with the 60-byte header and the L bytes of the name, and the
\* Writer expects the logical size of the payload.
C20_BSDNameBytesEmitted ==
    [][rendersBSDLongName
           => LET hdr == wlog'[Len(wlog')].hdr
                  at == wlog'[Len(wlog')].at
                  name == evenName(hdr.Name)
              IN  /\ SubSeq(aw'.w, at + 1, at + 16)
                         = Padded(<<"#", "1", SLASH>> \o Itoa(Len(name)), 16)
                  /\ Len(aw'.w) = at + HEADER_BYTE_SIZE + Len(name)
                  /\ SubSeq(aw'.w, at + HEADER_BYTE_SIZE + 1, Len(aw'.w)) = name
                  /\ aw'.nb = hdr.Size]_vars

\* this step is a call of Write; last'.len is the length of the slice passed
callsWrite == last'.op = "Write" /\ calls' = calls + 1

\* C21: a call of Write emits, after the bytes it writes (the slice passed,
\* cut to the size that remains), one pad byte exactly when their number is
\* odd, and returns their number without the pad byte; a slice that fits
\* is written without an error, whether its length is odd or even.
C21_WritePadsPerCall ==
    [][callsWrite
           => LET n == IF aw.closed THEN 0 ELSE Min(last'.len, aw.nb)
                  head == IF aw.wroteHeader \/ aw.closed THEN <<>> ELSE GLOBAL_HEADER
                  pad == IF n % 2 = 1 THEN <<NL>> ELSE <<>>
              IN  /\ last'.n = n
                  /\ aw'.w = aw.w \o head \o Payload(n) \o pad
                  /\ aw'.nb = aw.nb - n
                  /\ last'.err = IF aw.closed THEN ErrClosedWrite
                                 ELSE IF last'.len > aw.nb THEN ErrWriteTooLong
                                 ELSE nil]_vars

\* C21 witness: the second of two calls of Write with one byte each, for a
\* member declared with two bytes, has returned 1 and no error, and each of
\* the two calls has put a pad byte after its byte.
C21_Witness ==
    /\ last.op = "Write" /\ last.len = 1 /\ last.n = 1 /\ last.err = nil
    /\ wlog # <<>>
    /\ wlog[Len(wlog)].writes = 2 /\ wlog[Len(wlog)].hdr.Size = 2
    /\ plainField(wlog[Len(wlog)].hdr)
    /\ SubSeq(aw.w, wlog[Len(wlog)].at + HEADER_BYTE_SIZE + 1, Len(aw.w))
           = <<"p", NL, "p", NL>>

\* the offsets of the output at which a member header stands: the two bytes
\* that end a header occur nowhere else in the outputs of the model
headersIn(w) ==
    {p \in 0..(Len(w) - HEADER_BYTE_SIZE) :
         w[p + 59] = GRAVE /\ w[p + 60] = NL}

\* the n bytes at offset from of the header at offset p of the output,
\* trailing spaces dropped
fieldIn(w, p, from, n) == TrimRight(SubSeq(w, p + from + 1, p + from + n), SP)

\* the header at offset p of the output has a name field '/' and an offset
offsetNameIn(w, p) ==
    LET f == fieldIn(w, p, 0, 16)
    IN  Len(f) >= 2 /\ f[1] = SLASH /\ \A i \in 2..Len(f) : IsDigit(f[i], 10)

\* the header at offset q of the output refers to the entry of name in the
\* payload of the string table whose header stands at offset p
refersTo(w, q, p, name) ==
    LET size == NatVal(fieldIn(w, p, 48, 10), 10)
        payload == SubSeq(w, p + HEADER_BYTE_SIZE + 1, p + HEADER_BYTE_SIZE + size)
        off == NatVal(Tail(fieldIn(w, q, 0, 16)), 10)
    IN  /\ p + HEADER_BYTE_SIZE + size <= q
        /\ off + Len(name) + 2 <= size
        /\ off = 0 \/ payload[off] = NL
        /\ SubSeq(payload, off + 1, off + Len(name) + 2) = name \o <<SLASH, NL>>

\* C22: in the output of a GNU Writer every member header with a name field
\* '/' and an offset is that of a member written with a name of more than
\* 15 bytes, stands after the "//" member, and its offset is where the
\* entry of that name, the name followed by '/' and a newline, begins in
\* the payload of the "//" member; and every member written with such a
\* name has such a header.
C22_OffsetsIndexTheTable ==
    aw.variant = GNU =>
        /\ \A q \in headersIn(aw.w) :
               offsetNameIn(aw.w, q)
                   => \E i \in 1..Len(wlog) :
                          /\ wlog[i].at = q /\ Len(wlog[i].hdr.Name) > 15
                          /\ \E p \in stringTablesIn(aw.w) :
                                 refersTo(aw.w, q, p, wlog[i].hdr.Name)
        /\ \A i \in 1..Len(wlog) :
               Len(wlog[i].hdr.Name) > 15
                   => (wlog[i].at \in headersIn(aw.w) /\ offsetNameIn(aw.w, wlog[i].at))

\* C22 witness: a GNU Writer has written a string table of two names and
\* then a member with the second name, whose name field is "/3".
C22_Witness ==
    /\ aw.variant = GNU /\ last.op = "WriteHeader" /\ last.err = nil
    /\ wlog # <<>>
    /\ wlog[Len(wlog)].hdr.Name = LongName
    /\ fieldIn(aw.w, wlog[Len(wlog)].at, 0, 16) = <<SLASH, "3">>

\* C23: in the output of a GNU Writer a "//" member is the first member:
\* its header stands right after the global header and no member header
\* stands before it.
C23_StringTableFirst ==
    aw.variant = GNU =>
        \A p \in stringTablesIn(aw.w) :
            /\ p = Len(GLOBAL_HEADER)
            /\ \A q \in headersIn(aw.w) : q >= p

\* the number of '/' at the end of s
RECURSIVE trailingSlashes(_)
trailingSlashes(s) ==
    IF s = <<>> \/ s[Len(s)] # SLASH THEN 0
    ELSE 1 + trailingSlashes(SubSeq(s, 1, Len(s) - 1))

\* the call of Next made in this step meets, as the next member of a GNU
\* archive, a whole header whose name field does not start with '/'
meetsPlainGNUName ==
    /\ phase = "reading" /\ last'.op = "Next" /\ rd.variant = GNU
    /\ nextAt + HEADER_BYTE_SIZE <= Len(input.data)
    /\ nameFieldAt(nextAt) # <<>>
    /\ nameFieldAt(nextAt)[1] # SLASH

\* C24: for a name of a GNU archive that does not start with '/', Next
\* removes exactly one '/' from its end: a name that does not end with '/'
\* is refused with the file-name error "missing trailing '/'", a name that
\* ends with one '/' and has no other is returned without it, and a name
\* that ends with two or more keeps a '/' and is refused with the file-name
\* error "illegal '/'".
C24_OneTrailingSlash ==
    [][meetsPlainGNUName
           => LET name == nameFieldAt(nextAt)
                  k == trailingSlashes(name)
              IN  /\ k = 0 => last'.err = ErrNameNoSlash
                  /\ (k = 1 /\ ~Contains(SubSeq(name, 1, Len(name) - 1), SLASH))
                         => /\ last'.err = nil
                            /\ last'.hdr.Name = SubSeq(name, 1, Len(name) - 1)
                  /\ k >= 2 => last'.err = ErrNameSlash]_vars

\* a whole header lies at offset p and its name field is '/' and the text
\* of an integer
integerNameAt(p) ==
    /\ p + HEADER_BYTE_SIZE <= Len(input.data)
    /\ Len(nameFieldAt(p)) >= 2
    /\ nameFieldAt(p)[1] = SLASH
    /\ Atoi(Tail(nameFieldAt(p))).ok

\* where the call of Next made in this step meets the first member that is
\* not a string table: at the next header when a table is cached, after the
\* "//" member that stands there when none is
afterTable == IF rd.stringTable # <<>> THEN nextAt ELSE memberEnd(nextAt)

\* the call of Next made in this step meets, in a GNU archive and with a
\* string table cached or read on the way, a header whose name field is '/'
\* and the text of an integer
meetsIntegerOffset ==
    /\ phase = "reading" /\ last'.op = "Next" /\ rd.variant = GNU
    /\ rd.stringTable = <<>> => stringTableAt(nextAt)
    /\ integerNameAt(afterTable)

\* C25: for every integer after the '/' of a GNU name field, negative
\* values and values at or beyond the length of the table included, Next
\* either returns an error or returns a name taken from an entry that
\* starts at that offset inside the cached table and ends at a newline
\* inside it.
C25_OffsetWithinTable ==
    [][meetsIntegerOffset
           => LET off == Atoi(Tail(nameFieldAt(afterTable))).val
                  t == rd'.stringTable
              IN  /\ last'.err # PANIC
                  /\ last'.err = nil
                         => /\ off \in 0..(Len(t) - 1)
                            /\ \E e \in (off + 1)..Len(t) :
                                   /\ t[e] = NL
                                   /\ ~Contains(SubSeq(t, off + 1, e - 1), NL)
                                   /\ HasPrefix(SubSeq(t, off + 1, e - 1),
                                                last'.hdr.Name)]_vars

\* the size field of the header at offset p
sizeAt(p) == NatVal(TrimRight(SubSeq(input.data, p + 49, p + 58), SP), 10)

\* the n bytes of the archive after its first from bytes, or those of them
\* that the archive holds
bytesAt(from, n) == SubSeq(input.data, from + 1, Min(from + n, Len(input.data)))

\* the whole data section of a "//" member of the archive
tablePayloads ==
    {bytesAt(p + HEADER_BYTE_SIZE, sizeAt(p)) :
         p \in {q \in 0..(Len(input.data) - HEADER_BYTE_SIZE) :
                    /\ input.data[q + 59] = GRAVE /\ input.data[q + 60] = NL
                    /\ nameFieldAt(q) = <<SLASH, SLASH>>}}

\* the call of Next made in this step meets, as the next member of a BSD
\* archive, a whole header with the name field "#1/" and a length, and
\* returns a Header
returnsPrependedName ==
    /\ phase = "reading" /\ last'.op = "Next" /\ last'.err = nil
    /\ rd.variant = BSD
    /\ nextAt + HEADER_BYTE_SIZE <= Len(input.data)
    /\ HasPrefix(nameFieldAt(nextAt), <<"#", "1", SLASH>>)

\* C26: the string table that Next caches is the whole data section of the
\* "//" member, and the name that Next takes from the front of the data of
\* a BSD member "#1/L" is made of all L bytes that stand there, with L bytes
\* consumed, however many bytes one read of the stream delivers.
C26_FullTableAndName ==
    [][/\ (phase' = "reading" /\ rd'.stringTable # <<>>)
              => rd'.stringTable \in tablePayloads
       /\ returnsPrependedName
              => LET L == Atoi(Drop(nameFieldAt(nextAt), 3)).val
                     at == nextAt + HEADER_BYTE_SIZE
                 IN  /\ at + L <= Len(input.data)
                     /\ last'.hdr.Name = TrimRight(bytesAt(at, L), NUL)
                     /\ rd'.r.pos = at + L]_vars

\* C27: whenever Next returns a Header without an error, its Size is not
\* negative and is the number of bytes that remain to be read of the
\* member, for every size field and, in BSD archives, for every length L of
\* a name field "#1/L", a length greater than the size field included.
C27_SizeIsRemaining ==
    (phase = "reading" /\ last.op = "Next" /\ last.err = nil)
        => /\ last.hdr.Size >= 0
           /\ last.hdr.Size = rd.nb

\* the stream of the archive ends exactly where a member that starts at
\* offset p, or one of the members after it, would start
RECURSIVE endsAtMemberBoundary(_)
endsAtMemberBoundary(p) ==
    IF p = Len(input.data) THEN TRUE
    ELSE IF p + HEADER_BYTE_SIZE > Len(input.data) THEN FALSE
    ELSE endsAtMemberBoundary(memberEnd(p))

\* C28: Next returns io.EOF only when the stream ends exactly at a member
\* boundary; when the stream ends inside a header, or inside a payload or a
\* pad byte that Next has to skip, what Next returns is not io.EOF.
C28_EOFOnlyAtBoundary ==
    [][(phase = "reading" /\ last'.op = "Next" /\ last'.err = EOF)
           => endsAtMemberBoundary(Len(GLOBAL_HEADER))]_vars

\* a value of the Header renders wider than the field it goes into
rendersWide(h) ==
    \/ Len(FormatInt(h.ModTime, 10)) > 12
    \/ Len(FormatInt(h.Uid, 10)) > 6
    \/ Len(FormatInt(h.Gid, 10)) > 6
    \/ Len(<<"1", "0", "0">> \o FormatInt(h.Mode, 8)) > 8
    \/ Len(FormatInt(h.Size, 10)) > 10

\* the 60 bytes of the output at offset at hold the values of the Header in
\* their fields: the numbers as the Reader parses them, the mode as the text
\* rendered for it
holdsValues(w, at, h) ==
    /\ Len(w) >= at + HEADER_BYTE_SIZE
    /\ rdNumeric(SubSeq(w, at + 17, at + 28)) = h.ModTime
    /\ rdNumeric(SubSeq(w, at + 29, at + 34)) = h.Uid
    /\ rdNumeric(SubSeq(w, at + 35, at + 40)) = h.Gid
    /\ rdString(SubSeq(w, at + 41, at + 48)) = <<"1", "0", "0">> \o FormatInt(h.Mode, 8)
    /\ rdNumeric(SubSeq(w, at + 49, at + 58)) = h.Size
    /\ SubSeq(w, at + 59, at + 60) = <<GRAVE, NL>>

\* C29: WriteHeader returns an error for every Header whose size, uid, gid,
\* mode or modTime renders wider than its field of 10, 6, 6, 8 and 12 bytes;
\* a header it emits is a block of exactly 60 bytes whose fields decode to
\* the values supplied (the ModTime as WriteHeader leaves it).
C29_WideFieldsRejected ==
    [][callsWriteHeader
           => /\ rendersWide(last'.hdr) => last'.err # nil
              /\ last'.err = nil
                     => LET at == wlog'[Len(wlog')].at
                            hdr == wlog'[Len(wlog')].hdr
                        IN  /\ holdsValues(aw'.w, at, last'.hdr)
                            /\ ~(aw.variant = BSD /\ Len(hdr.Name) > 16)
                                   => Len(aw'.w) = at + HEADER_BYTE_SIZE]_vars

\* the text of the modTime field of the header WriteHeader has emitted last
modTimeField(w, log) == rdString(SubSeq(w, log[Len(log)].at + 17, log[Len(log)].at + 28))

\* C30: WriteHeader encodes a ModTime earlier than the Unix epoch as 0 in
\* the modTime field and a ModTime at or after the epoch as its whole number
\* of seconds; the field never holds a negative number.
C30_ModTimeNotBeforeEpoch ==
    [][(callsWriteHeader /\ last'.err = nil)
           => LET given == wlog'[Len(wlog')].hdr.ModTime
                  field == modTimeField(aw'.w, wlog')
              IN  /\ given < Epoch => field = <<"0">>
                  /\ given >= Epoch => field = FormatInt(given, 10)
                  /\ field[1] # "-"
                  /\ rdNumeric(field) >= 0]_vars

\* WriteHeader has emitted the header of a member whose ModTime is before
\* the epoch, with 0 in the modTime field
C30_Witness ==
    /\ phase = "writing" /\ last.op = "WriteHeader" /\ last.err = nil
    /\ wlog # <<>> /\ wlog[Len(wlog)].hdr.ModTime < Epoch
    /\ modTimeField(aw.w, wlog) = <<"0">>
    /\ last.hdr.ModTime = Epoch

\* this step is a call of Close on a Writer that is open
callsClose == last'.op = "Close" /\ ~aw.closed

\* the offset of the output at which the data section declared by the header
\* emitted last ends, the pad not counted
declaredEnd(w, log) ==
    log[Len(log)].at + HEADER_BYTE_SIZE
        + rdNumeric(SubSeq(w, log[Len(log)].at + 49, log[Len(log)].at + 58))

\* C31: a WriteHeader or a Close that succeeds while the current member
\* still expects payload bytes does not leave that member shorter than the
\* size its header declares: in the output the header of every member is
\* followed by as many bytes as its size field says.
C31_NoShortMember ==
    [][(/\ callsWriteHeader \/ callsClose
        /\ last'.err = nil
        /\ wlog # <<>> /\ aw.nb > 0)
           => /\ Len(aw.w) >= declaredEnd(aw.w, wlog)
              /\ Len(aw'.w) >= declaredEnd(aw'.w, wlog)]_vars

\* the archive being read was written by a GNU Writer and holds a member
\* whose name is registered in the string table and a member whose name has
\* at most 15 bytes
holdsLongAndShortName ==
    /\ phase = "reading" /\ aw.variant = GNU
    /\ \E i \in 1..Len(input.members) :
           /\ Len(input.members[i].hdr.Name) > 15
           /\ MapHas(aw.stringTable, input.members[i].hdr.Name)
    /\ \E i \in 1..Len(input.members) : Len(input.members[i].hdr.Name) \in 1..15

\* C32: an archive written by a GNU Writer that holds a member with a long
\* name registered in the string table and a member with a name of at most
\* 15 bytes is read back without an error: Next returns the names as they
\* were written, in the order written, and fails only with io.EOF after the
\* last member.
C32_MixedNamesReadBack ==
    holdsLongAndShortName
        => /\ Len(got) <= Len(input.members)
           /\ \A i \in 1..Len(got) : got[i].hdr.Name = input.members[i].hdr.Name
           /\ (last.op = "Next" /\ last.err # nil)
                  => (last.err = EOF /\ Len(got) = Len(input.members))

\* C33: a WriteHeader that returns an error leaves the count of payload
\* bytes the Writer expects as it was before the call, so that a Write on a
\* Writer that has emitted no header accepts no byte.
C33_FailedHeaderKeepsCount ==
    [][/\ (callsWriteHeader /\ last'.err # nil) => aw'.nb = aw.nb
       /\ (callsWrite /\ wlog = <<>>) => (last'.n = 0 /\ accepted' = accepted)]_vars

\* the name field and the size field of the header at offset at of the
\* output
nameAndSize(w, at) == <<SubSeq(w, at + 1, at + 16), SubSeq(w, at + 49, at + 58)>>

\* C34: WriteHeader leaves the Header of its caller as it was (Name, Size
\* and ModTime), and a Header passed to WriteHeader a second time is emitted
\* with the name field and the size field of the first time, also for a BSD
\* long name and for a ModTime before the epoch.
C34_HeaderUnchanged ==
    [][(callsWriteHeader /\ last'.err = nil)
           => /\ last'.hdr = wlog'[Len(wlog')].hdr
              /\ (/\ last.op = "WriteHeader" /\ last.err = nil /\ wlog # <<>>
                  /\ wlog'[Len(wlog')].hdr = last.hdr)
                     => nameAndSize(aw'.w, wlog'[Len(wlog')].at)
                            = nameAndSize(aw'.w, wlog[Len(wlog)].at)]_vars

====
